---- MODULE Spec2Model ----
(***************************************************************************)
(* Model of the EMG statistics engine (calculate_statistics in             *)
(* emg_web_report.py and emg_analysis_improved.py) and of the windowing    *)
(* loops of the report script (updateIntegratedChart / updateRMSChart),    *)
(* and of one run of the analysis over the configured sources              *)
(* (analyze_emg_data, load_and_process_data) with the report built from    *)
(* its maps.                                                               *)
(*                                                                         *)
(* Specifications:                                                         *)
(*    Spec           calculate_statistics on one column                    *)
(*    SpecCharts     the two windowing loops at the configured rates       *)
(*    SpecWindowing  the same loops on a data object of any sampling rate, *)
(*                   with the fairness of a script that keeps running      *)
(*    SpecRun        the loop over file_configs, the report and its charts *)
(*    SpecCalls      repeated calls of calculate_statistics on one column  *)
(*    SpecTasks      the per-source steps of analyze_emg_data in any order *)
(*    SpecCompare    the statistics functions of both programs on one      *)
(*                   column                                                *)
(*    SpecServer     start_web_server: the report file, the change of      *)
(*                   directory, the HTTP server and the browser            *)
(*                                                                         *)
(* Numbers.  Samples are integers.  A computed float is modelled by the    *)
(* exact real it approximates, in a canonical encoding:                    *)
(*    [n |-> a, d |-> b, root |-> FALSE]   the rational a/b, b > 0,        *)
(*                                         gcd(|a|, b) = 1                 *)
(*    [n |-> a, d |-> b, root |-> TRUE]    sqrt(a/b), a/b reduced and not  *)
(*                                         the square of a rational        *)
(* so two encodings are equal exactly when the reals are equal.  Floating  *)
(* point rounding and the wrap-around of int64 squares are not modelled.   *)
(*                                                                         *)
(* A cell of a CSV column is [num |-> TRUE, v |-> x] when it coerces to    *)
(* the number x and [num |-> FALSE, v |-> 0] when it does not (text,       *)
(* empty cell).                                                            *)
(***************************************************************************)
EXTENDS Integers, Sequences, FiniteSets, TLC

VARIABLES
    series,            \* the column handed to calculate_statistics
    remove_outliers,   \* the flag of the last web-report call
    stats,             \* <<>> or <<bundle>>: result of the web-report call
    numeric_series,    \* local of the last web-report call
    percentiles,       \* <<>> or <<lower_percentile, upper_percentile>>
    filtered_series,   \* <<>> or <<filtered_series>> (set only when trimming)
    raised,            \* TRUE iff the last call raised
    calls,             \* the recorded calls on the column, oldest first
    improved_stats,    \* <<>> or <<result of calculate_statistics (improved)>>
    improved_rms,      \* <<>> or <<result of calculate_rms>>
    \* --- the report script: one channel of emgData.timeSeriesData ---
    yData,             \* quad_data / bicep_data of the channel
    sampling_rate,     \* data.sampling_rate
    pc,                \* "idle", "integrated", "mean", "rms_chart", "rms", "done"
    windowSize,        \* local of the running chart function
    loopIndex,         \* the loop variable i of the running chart function
    sampledY,          \* updateIntegratedChart: window means
    timeData,          \* updateIntegratedChart: window timestamps
    rmsValues,         \* updateRMSChart: window RMS values
    rmsTimeData,       \* updateRMSChart: window timestamps
    meanWindows,       \* record of the windows sliced by updateIntegratedChart
    rmsWindows,        \* record of the windows sliced by updateRMSChart
    \* --- one run of the analysis and of the report built from it ---
    program,           \* "web" (emg_web_report) or "improved"
    disk,              \* the file behind each configured source
    run_pc,            \* "idle", "loop", "returned", "report", "no_data"
    loopPos,           \* position of the loop over file_configs
    analysis_results,  \* source -> headline RMS values
    detailed_stats,    \* source -> the two bundles
    raw_data_preview,  \* source -> preview (raw_data_storage of "improved")
    time_series_data,  \* source -> the two series and the sampling rate
    trail,             \* what each iteration of the loop did, in order
    stage,             \* source -> how far its task has got (one task each)
    display,           \* source -> the derived cells of the report
    \* --- start_web_server: the process, the file system, the browser ---
    cwd,               \* the working directory of the process
    volume,            \* TRUE iff the directory /Volumes/dev/EMG exists
    files,             \* directory -> state of its emg_report_live.html
    port_free,         \* TRUE iff port 8000 can be bound
    srv_pc,            \* "idle", "generated", "chdir", "serving", "failed",
                       \* "stopped"
    response           \* <<>> or <<answer to the last GET of the report URL>>

statsVars == <<series, remove_outliers, stats, numeric_series, percentiles,
               filtered_series, raised, calls, improved_stats, improved_rms>>

chartVars == <<yData, sampling_rate, pc, windowSize, loopIndex,
               sampledY, timeData, rmsValues, rmsTimeData, meanWindows,
               rmsWindows>>

runVars == <<program, disk, run_pc, loopPos, analysis_results, detailed_stats,
             raw_data_preview, time_series_data, trail, stage, display>>

serverVars == <<cwd, volume, files, port_free, srv_pc, response>>

vars == <<statsVars, chartVars, runVars, serverVars>>

----------------------------------------------------------------------------
(* Bounds *)

\* longest column enumerated cell by cell
MaxShortLen == 3
\* largest number of tied or extreme samples put in each tail of a long column
MaxTail == 2
\* long columns have 19..MaxCount cells
MaxCount == 23

----------------------------------------------------------------------------
(* Exact arithmetic *)

Abs(x) == IF x < 0 THEN -x ELSE x

RECURSIVE Gcd(_, _)
Gcd(a, b) == IF b = 0 THEN a ELSE Gcd(b, a % b)

\* the rational a/b (b > 0) in canonical form
Rat(a, b) ==
    LET g == Gcd(Abs(a), b)
    IN  [n |-> a \div g, d |-> b \div g, root |-> FALSE]

RECURSIVE IsqrtIn(_, _, _)
IsqrtIn(x, lo, hi) ==
    IF lo >= hi THEN lo
    ELSE LET mid == (lo + hi + 1) \div 2
         IN  IF mid * mid <= x THEN IsqrtIn(x, mid, hi)
             ELSE IsqrtIn(x, lo, mid - 1)

\* floor of the square root of x >= 0
Isqrt(x) == IsqrtIn(x, 0, IF x < 46340 THEN x ELSE 46340)

\* sqrt(a/b) for a >= 0, b > 0, in canonical form
Sqrt(a, b) ==
    LET q  == Rat(a, b)
        rn == Isqrt(q.n)
        rd == Isqrt(q.d)
    IN  IF rn * rn = q.n /\ rd * rd = q.d
        THEN [n |-> rn, d |-> rd, root |-> FALSE]
        ELSE [n |-> q.n, d |-> q.d, root |-> TRUE]

\* the float literal 0.0
Zero == Rat(0, 1)

\* x <= y for rationals (root = FALSE)
RatLeq(x, y) == x.n * y.d <= y.n * x.d

\* the square of a real, as a rational
Square(x) == IF x.root THEN Rat(x.n, x.d) ELSE Rat(x.n * x.n, x.d * x.d)

\* s[lo]^p + ... + s[hi]^p for p = 1 or 2, by halving the range
RECURSIVE SumRange(_, _, _, _)
SumRange(s, lo, hi, p) ==
    IF lo > hi THEN 0
    ELSE IF lo = hi THEN (IF p = 1 THEN s[lo] ELSE s[lo] * s[lo])
    ELSE LET mid == (lo + hi) \div 2
         IN  SumRange(s, lo, mid, p) + SumRange(s, mid + 1, hi, p)

SumSeq(s) == SumRange(s, 1, Len(s), 1)

SumSqSeq(s) == SumRange(s, 1, Len(s), 2)

RECURSIVE MaxSeq(_)
MaxSeq(s) ==
    IF Len(s) = 1 THEN Head(s)
    ELSE LET m == MaxSeq(Tail(s)) IN IF Head(s) >= m THEN Head(s) ELSE m

RECURSIVE MinSeq(_)
MinSeq(s) ==
    IF Len(s) = 1 THEN Head(s)
    ELSE LET m == MinSeq(Tail(s)) IN IF Head(s) <= m THEN Head(s) ELSE m

RECURSIVE Insert(_, _)
Insert(x, s) ==
    IF s = <<>> THEN <<x>>
    ELSE IF x <= Head(s) THEN <<x>> \o s
         ELSE <<Head(s)>> \o Insert(x, Tail(s))

\* ascending sort (np.percentile sorts a copy of its argument)
RECURSIVE Sort(_)
Sort(s) == IF s = <<>> THEN <<>> ELSE Insert(Head(s), Sort(Tail(s)))

----------------------------------------------------------------------------
(* numpy / pandas primitives *)

\* pd.to_numeric(series, errors='coerce').dropna(): the numeric cells, in order
RECURSIVE to_numeric_dropna(_)
to_numeric_dropna(col) ==
    IF col = <<>> THEN <<>>
    ELSE IF Head(col).num
         THEN <<Head(col).v>> \o to_numeric_dropna(Tail(col))
         ELSE to_numeric_dropna(Tail(col))

\* np.sqrt(np.mean(x**2))
np_rms(x) == Sqrt(SumSqSeq(x), Len(x))

\* np.mean(x)
np_mean(x) == Rat(SumSeq(x), Len(x))

\* mutant: the sample standard deviation (ddof = 1)
np_std_ddof1(x) ==
    LET N == Len(x)
    IN  IF N = 1 THEN Zero
        ELSE Sqrt(N * SumSqSeq(x) - SumSeq(x) * SumSeq(x), N * (N - 1))

\* np.std(x): population standard deviation (ddof = 0)
np_std(x) ==
    LET N == Len(x)
    IN  Sqrt(N * SumSqSeq(x) - SumSeq(x) * SumSeq(x), N * N)

\* mutant: the first sample
np_max_first(x) == Rat(x[1], 1)

\* np.max(x), np.min(x)
np_max(x) == Rat(MaxSeq(x), 1)
np_min(x) == Rat(MinSeq(x), 1)

\* mutant: method 'lower', the order statistic at the floor of the index
np_percentile_lower(x, qm) ==
    LET s == Sort(x)
        k == ((Len(s) - 1) * qm) \div 1000
    IN  Rat(s[k + 1], 1)

\* np.percentile(x, q) with q = qm / 10 (linear interpolation between the
\* order statistics around the virtual index (N-1) * q / 100)
np_percentile(x, qm) ==
    LET s    == Sort(x)
        N    == Len(s)
        pos  == (N - 1) * qm
        k    == pos \div 1000
        r    == pos % 1000
        lo   == s[k + 1]
        hi   == s[IF k + 2 <= N THEN k + 2 ELSE N]
    IN  Rat(1000 * lo + r * (hi - lo), 1000)

\* mutant: exclusive bounds
RECURSIVE mask_strictly_between(_, _, _)
mask_strictly_between(x, lower, upper) ==
    IF x = <<>> THEN <<>>
    ELSE IF ~RatLeq(Rat(Head(x), 1), lower) /\ ~RatLeq(upper, Rat(Head(x), 1))
         THEN <<Head(x)>> \o mask_strictly_between(Tail(x), lower, upper)
         ELSE mask_strictly_between(Tail(x), lower, upper)

\* numeric_series[(numeric_series >= lower) & (numeric_series <= upper)]
RECURSIVE mask_between(_, _, _)
mask_between(x, lower, upper) ==
    IF x = <<>> THEN <<>>
    ELSE IF RatLeq(lower, Rat(Head(x), 1)) /\ RatLeq(Rat(Head(x), 1), upper)
         THEN <<Head(x)>> \o mask_between(Tail(x), lower, upper)
         ELSE mask_between(Tail(x), lower, upper)

----------------------------------------------------------------------------
(* calculate_statistics of the web report *)

\* the bundle returned for a column without numeric cells
EmptyBundle ==
    [RMS |-> Zero, Mean |-> Zero, Std |-> Zero, Max |-> Zero, Min |-> Zero,
     Count |-> 0,
     RMS_filtered |-> Zero, Mean_filtered |-> Zero, Std_filtered |-> Zero,
     Max_filtered |-> Zero, Min_filtered |-> Zero, Count_filtered |-> 0,
     Outliers_removed |-> 0]

\* the outcome of a call that raised (np.max / np.min of a zero-size array
\* raises ValueError, np.percentile of one raises IndexError)
Raised(ns) ==
    [raised |-> TRUE, bundle |-> <<>>, numeric_series |-> ns,
     percentiles |-> <<>>, filtered |-> <<>>]

\* original_stats
original_stats(ns) ==
    [RMS |-> np_rms(ns), Mean |-> np_mean(ns), Std |-> np_std(ns),
     Max |-> np_max(ns), Min |-> np_min(ns), Count |-> Len(ns)]

\* mutant: trimming starts at 20 samples
trims_from_20(ns, flag) == flag /\ Len(ns) >= 20

\* mutant: the flag is ignored
trims_ignoring_flag(ns, flag) == Len(ns) > 20

\* the condition under which outliers are trimmed
trims(ns, flag) == flag /\ Len(ns) > 20

\* mutant: the difference of the lengths is taken the wrong way round
trimmed_stats_negated(ns, fs) ==
    [RMS_filtered |-> np_rms(fs), Mean_filtered |-> np_mean(fs),
     Std_filtered |-> np_std(fs), Max_filtered |-> np_max(fs),
     Min_filtered |-> np_min(fs), Count_filtered |-> Len(fs),
     Outliers_removed |-> Len(fs) - Len(ns)]

\* filtered_stats of the trimming branch
trimmed_stats(ns, fs) ==
    [RMS_filtered |-> np_rms(fs), Mean_filtered |-> np_mean(fs),
     Std_filtered |-> np_std(fs), Max_filtered |-> np_max(fs),
     Min_filtered |-> np_min(fs), Count_filtered |-> Len(fs),
     Outliers_removed |-> Len(ns) - Len(fs)]

\* filtered_stats of the else branch: copies of the raw fields
copied_stats(o) ==
    [RMS_filtered |-> o.RMS, Mean_filtered |-> o.Mean,
     Std_filtered |-> o.Std, Max_filtered |-> o.Max,
     Min_filtered |-> o.Min, Count_filtered |-> o.Count,
     Outliers_removed |-> 0]

\* {**original_stats, **filtered_stats}
merge(o, f) ==
    [RMS |-> o.RMS, Mean |-> o.Mean, Std |-> o.Std, Max |-> o.Max,
     Min |-> o.Min, Count |-> o.Count,
     RMS_filtered |-> f.RMS_filtered, Mean_filtered |-> f.Mean_filtered,
     Std_filtered |-> f.Std_filtered, Max_filtered |-> f.Max_filtered,
     Min_filtered |-> f.Min_filtered, Count_filtered |-> f.Count_filtered,
     Outliers_removed |-> f.Outliers_removed]

\* mutant: the 5th percentile
LowerQ_5 == 2 * 25

\* the percentile ranks 2.5 and 97.5, in tenths of a percent
LowerQ == 25

\* mutant: the 1st percentile as the upper bound
UpperQ_low == 2 * 5

UpperQ == 975

\* the part of calculate_statistics after the empty check
stats_body(ns, flag) ==
    IF ns = <<>> THEN Raised(ns)
    ELSE IF trims(ns, flag)
    THEN LET lower == np_percentile(ns, LowerQ)
             upper == np_percentile(ns, UpperQ)
             fs    == mask_between(ns, lower, upper)
         IN  IF fs = <<>> THEN Raised(ns)
             ELSE [raised |-> FALSE,
                   bundle |-> <<merge(original_stats(ns), trimmed_stats(ns, fs))>>,
                   numeric_series |-> ns,
                   percentiles |-> <<lower, upper>>,
                   filtered |-> <<fs>>]
    ELSE [raised |-> FALSE,
          bundle |-> <<merge(original_stats(ns), copied_stats(original_stats(ns)))>>,
          numeric_series |-> ns,
          percentiles |-> <<>>,
          filtered |-> <<>>]

\* mutant: no check for the empty series
calculate_statistics_unchecked(col, flag) ==
    stats_body(to_numeric_dropna(col), flag)

\* calculate_statistics(series, remove_outliers)
calculate_statistics(col, flag) ==
    LET ns == to_numeric_dropna(col)
    IN  IF ns = <<>>
        THEN [raised |-> FALSE, bundle |-> <<EmptyBundle>>,
              numeric_series |-> ns, percentiles |-> <<>>, filtered |-> <<>>]
        ELSE stats_body(ns, flag)

----------------------------------------------------------------------------
(* Input columns *)

Num(x) == [num |-> TRUE, v |-> x]
NaNCell == [num |-> FALSE, v |-> 0]

Cells == {Num(-3), Num(0), Num(3), Num(4), NaNCell}

\* every column of at most MaxShortLen cells
ShortColumns == UNION {[1..n -> Cells] : n \in 0..MaxShortLen}

\* the magnitude of the extreme samples: the low tail holds -ExtremeVal, the
\* high tail ExtremeVal
ExtremeVal == 50
Patterns == {"equal", "distinct", "pairs"}

\* the i-th of m middle samples
Middle(pat, m, i) ==
    CASE pat = "equal"    -> 1
      [] pat = "distinct" -> m + 1 - i
      [] pat = "pairs"    -> (i % 2) + 1

\* n samples, unsorted: b high extremes, the middle samples, a low extremes
LongSamples(n, a, b, pat) ==
    [i \in 1..n |->
        IF i <= b THEN ExtremeVal
        ELSE IF i > n - a THEN -ExtremeVal
        ELSE Middle(pat, n - a - b, i - b)]

\* the samples as cells; with gaps, non-numeric cells stand before the first
\* and after the fifth sample
LongColumn(n, a, b, pat, gaps) ==
    LET c == [i \in 1..n |-> Num(LongSamples(n, a, b, pat)[i])]
    IN  IF gaps
        THEN <<NaNCell>> \o SubSeq(c, 1, 5) \o <<NaNCell>> \o SubSeq(c, 6, n)
        ELSE c

\* numbers of samples of the long columns: around the trimming threshold 20,
\* and 41, 42 where the percentile position (N-1)/40 is, resp. just passed, 1
LongCounts == (19..MaxCount) \cup {41, 42}

LongColumns ==
    {LongColumn(n, a, b, pat, gaps) :
        n \in LongCounts, a \in 0..MaxTail, b \in 0..MaxTail,
        pat \in Patterns, gaps \in BOOLEAN}

Columns == ShortColumns \cup LongColumns

----------------------------------------------------------------------------
(* The statistics engine as a state machine: a column, and calls on it *)

\* no call of calculate_statistics has been made
StatsIdle ==
    /\ remove_outliers = TRUE
    /\ stats = <<>>
    /\ numeric_series = <<>>
    /\ percentiles = <<>>
    /\ filtered_series = <<>>
    /\ raised = FALSE
    /\ calls = <<>>
    /\ improved_stats = <<>>
    /\ improved_rms = <<>>

\* the report script is not running
ChartsIdle ==
    /\ yData = <<>>
    /\ sampling_rate = 1000
    /\ pc = "idle"
    /\ windowSize = 0
    /\ loopIndex = 0
    /\ sampledY = <<>>
    /\ timeData = <<>>
    /\ rmsValues = <<>>
    /\ rmsTimeData = <<>>
    /\ meanWindows = <<>>
    /\ rmsWindows = <<>>

\* no analysis run is under way
RunIdle ==
    /\ program = "web"
    /\ disk = <<>>
    /\ run_pc = "idle"
    /\ loopPos = 0
    /\ analysis_results = <<>>
    /\ detailed_stats = <<>>
    /\ raw_data_preview = <<>>
    /\ time_series_data = <<>>
    /\ trail = <<>>
    /\ stage = <<>>
    /\ display = <<>>

\* the directory start_web_server changes to
serve_directory == "/Volumes/dev/EMG"

\* directories the program can be started from
Dirs == {serve_directory, "/home/user/emg2", "/tmp/emg"}

\* start_web_server has not been called
ServerIdle ==
    /\ cwd = serve_directory
    /\ volume = TRUE
    /\ files = [d \in Dirs |-> "absent"]
    /\ port_free = TRUE
    /\ srv_pc = "idle"
    /\ response = <<>>

Init ==
    /\ series \in Columns
    /\ StatsIdle
    /\ ServerIdle
    /\ ChartsIdle
    /\ RunIdle

CalculateStatistics ==
    \E flag \in BOOLEAN :
        LET r == calculate_statistics(series, flag)
        IN  /\ remove_outliers' = flag
            /\ stats' = r.bundle
            /\ numeric_series' = r.numeric_series
            /\ percentiles' = r.percentiles
            /\ filtered_series' = r.filtered
            /\ raised' = r.raised
            /\ UNCHANGED <<series, calls, improved_stats, improved_rms,
                           chartVars, runVars, serverVars>>

Next == CalculateStatistics

Spec == Init /\ [][Next]_vars

\* a web-report call has returned
Returned == stats # <<>>
Bundle == stats[1]

\* a web-report call has been made
Called == stats # <<>> \/ raised

----------------------------------------------------------------------------
(* Vocabulary of the properties, defined on the column itself *)

IsNum(c) == c.num

\* the numeric cells of the column, in row order
Samples ==
    LET sel == SelectSeq(series, IsNum)
    IN  [i \in 1..Len(sel) |-> sel[i].v]

RECURSIVE PowerSum(_, _, _)
\* sum of x[i]^p over i in idx (p = 1 or 2)
PowerSum(x, idx, p) ==
    IF idx = {} THEN 0
    ELSE LET i == CHOOSE j \in idx : TRUE
         IN  (IF p = 1 THEN x[i] ELSE x[i] * x[i]) + PowerSum(x, idx \ {i}, p)

Sum1(x) == PowerSum(x, DOMAIN x, 1)
Sum2(x) == PowerSum(x, DOMAIN x, 2)
Largest(x) == CHOOSE v \in {x[i] : i \in DOMAIN x} : \A i \in DOMAIN x : x[i] <= v
Smallest(x) == CHOOSE v \in {x[i] : i \in DOMAIN x} : \A i \in DOMAIN x : v <= x[i]

\* the rational q equals a / b
RatIs(q, a, b) == ~q.root /\ q.n * b = a * q.d
\* the real q >= 0 has square a / b
SquareIs(q, a, b) == q.n >= 0 /\ RatIs(Square(q), a, b)

\* the k-th smallest sample (k = 1..Len(x)), by counting
OrderStat(x, k) ==
    CHOOSE v \in {x[i] : i \in DOMAIN x} :
        /\ Cardinality({i \in DOMAIN x : x[i] < v}) < k
        /\ k <= Cardinality({i \in DOMAIN x : x[i] <= v})

\* 40 times the linear-interpolation percentile of x at the sorted position
\* t * (N - 1) / 40  (t = 1: 2.5th percentile, t = 39: 97.5th percentile)
Percentile40(x, t) ==
    LET pos == t * (Len(x) - 1)
        k   == pos \div 40
        r   == pos % 40
    IN  IF r = 0 THEN 40 * OrderStat(x, k + 1)
        ELSE 40 * OrderStat(x, k + 1)
               + r * (OrderStat(x, k + 2) - OrderStat(x, k + 1))

InBand(v) ==
    /\ Percentile40(Samples, 1) <= 40 * v
    /\ 40 * v <= Percentile40(Samples, 39)

\* the samples within [P2.5, P97.5], in row order
Retained == SelectSeq(Samples, InBand)

\* the filtered fields of b are copies of the raw fields
FilteredIsRaw(b) ==
    /\ b.RMS_filtered = b.RMS
    /\ b.Mean_filtered = b.Mean
    /\ b.Std_filtered = b.Std
    /\ b.Max_filtered = b.Max
    /\ b.Min_filtered = b.Min
    /\ b.Count_filtered = b.Count
    /\ b.Outliers_removed = 0

----------------------------------------------------------------------------
(* Properties of calculate_statistics *)

\* C1: a column in which no cell coerces to a number (the empty column
\* included) gets the bundle with every statistic 0.0 and every count 0;
\* the call computes no percentile and does not raise.
C1_EmptyColumnZeroBundle ==
    (Called /\ Samples = <<>>) =>
        /\ ~raised
        /\ percentiles = <<>>
        /\ stats # <<>>
        /\ \A f \in {"RMS", "Mean", "Std", "Max", "Min", "RMS_filtered",
                     "Mean_filtered", "Std_filtered", "Max_filtered",
                     "Min_filtered"} : Bundle[f] = Zero
        /\ \A f \in {"Count", "Count_filtered", "Outliers_removed"} :
                Bundle[f] = 0

C1_Witness == Returned /\ Len(series) > 0 /\ Samples = <<>>

\* C2: with 1 <= Count <= 20 the filtered fields equal the raw fields and
\* Outliers_removed = 0, whatever the flag; with the default flag trimming
\* is applied from Count = 21 on.
C2_NoTrimUpTo20 ==
    Called =>
        /\ (Len(Samples) \in 1..20 =>
               /\ Returned
               /\ Bundle.Count = Len(Samples)
               /\ FilteredIsRaw(Bundle)
               /\ percentiles = <<>>)
        /\ (Len(Samples) >= 21 /\ remove_outliers =>
               /\ percentiles # <<>>
               /\ filtered_series # <<>>)

C2_Witness ==
    /\ Returned /\ remove_outliers /\ Bundle.Count = 20
    /\ Smallest(Samples) < Largest(Samples)

\* C3: with remove_outliers = False the filtered fields equal the raw fields
\* and Outliers_removed = 0 for a series of any length.
C3_FlagOffNoTrim ==
    (Called /\ ~remove_outliers) =>
        /\ Returned
        /\ FilteredIsRaw(Bundle)
        /\ Bundle.Count = Len(Samples)

C3_Witness ==
    /\ Returned /\ ~remove_outliers /\ Bundle.Count > 20
    /\ Len(Retained) < Len(Samples)

\* C4: with Count > 20, Count_filtered <= Count and
\* Outliers_removed = Count - Count_filtered >= 0.
C4_CountsConsistent ==
    (Called /\ Len(Samples) > 20) =>
        /\ Returned
        /\ Bundle.Count = Len(Samples)
        /\ Bundle.Count_filtered <= Bundle.Count
        /\ Bundle.Outliers_removed = Bundle.Count - Bundle.Count_filtered
        /\ Bundle.Outliers_removed >= 0

C4_Witness ==
    Returned /\ Bundle.Count > 20 /\ Bundle.Outliers_removed > 0

\* C5: with Count > 20 (and trimming on) the percentiles are the
\* linear-interpolation percentiles at sorted positions 0.025 * (Count - 1)
\* and 0.975 * (Count - 1), the retained subset is exactly the samples x with
\* P2.5 <= x <= P97.5, and the filtered statistics are those of that subset.
C5_RetainedBand ==
    (Called /\ remove_outliers /\ Len(Samples) > 20) =>
        /\ Returned
        /\ percentiles # <<>>
        /\ RatIs(percentiles[1], Percentile40(Samples, 1), 40)
        /\ RatIs(percentiles[2], Percentile40(Samples, 39), 40)
        /\ filtered_series = <<Retained>>
        /\ LET n == Len(Retained)
               b == Bundle
           IN  /\ n > 0
               /\ b.Count_filtered = n
               /\ RatIs(b.Mean_filtered, Sum1(Retained), n)
               /\ SquareIs(b.RMS_filtered, Sum2(Retained), n)
               /\ SquareIs(b.Std_filtered,
                           n * Sum2(Retained) - Sum1(Retained) * Sum1(Retained),
                           n * n)
               /\ RatIs(b.Max_filtered, Largest(Retained), 1)
               /\ RatIs(b.Min_filtered, Smallest(Retained), 1)

\* a trimmed series in which a sample equal to P2.5 is kept while a smaller
\* sample is removed
C5_Witness ==
    /\ Returned /\ remove_outliers /\ Len(Samples) > 20
    /\ \E i \in DOMAIN Samples : 40 * Samples[i] = Percentile40(Samples, 1)
    /\ \E i \in DOMAIN Samples : 40 * Samples[i] < Percentile40(Samples, 1)

\* the number of samples below P2.5 / above P97.5
BelowBand == Cardinality({i \in DOMAIN Samples :
                            40 * Samples[i] < Percentile40(Samples, 1)})
AboveBand == Cardinality({i \in DOMAIN Samples :
                            40 * Samples[i] > Percentile40(Samples, 39)})

C7_RawStatistics ==
    (Called /\ Samples # <<>>) =>
        /\ Returned
        /\ LET n == Len(Samples)
               b == Bundle
           IN  /\ b.Count = n
               /\ SquareIs(b.RMS, Sum2(Samples), n)
               /\ RatIs(b.Mean, Sum1(Samples), n)
               \* sum (x - Mean)^2 = sum x^2 - (sum x)^2 / n
               /\ SquareIs(b.Std,
                           n * Sum2(Samples) - Sum1(Samples) * Sum1(Samples),
                           n * n)
               /\ RatIs(b.Max, Largest(Samples), 1)
               /\ RatIs(b.Min, Smallest(Samples), 1)
               /\ (Samples = <<3, 4>> =>
                      /\ RatIs(b.Mean, 7, 2)
                      /\ RatIs(b.Std, 1, 2)
                      /\ SquareIs(b.RMS, 25, 2))

C7_Witness == Returned /\ series = <<Num(3), Num(4)>>

----------------------------------------------------------------------------
(* The windowing loops of the report script, for one channel *)

\* the samples before the first and beyond the last full window that are
\* enumerated one by one
MaxSmallLen == 3
\* the longest series runs MaxOver samples past the 10 s horizon
MaxOver == 500

\* sampling_rate set by analyze_emg_data for a source of the given type
source_sampling_rate(type) == IF type = "Noraxon" THEN 2000 ELSE 1000

\* data.sampling_rate || 1000
samplingRate == IF sampling_rate = 0 THEN 1000 ELSE sampling_rate

Min2(a, b) == IF a <= b THEN a ELSE b

\* Array.prototype.slice(from, to) for 0 <= from <= to
js_slice(a, from, to) == SubSeq(a, from + 1, Min2(to, Len(a)))

\* mutant: no horizon
maxSamples_untruncated == Len(yData)

\* Math.min(yData.length, samplingRate * 10)
maxSamples == Min2(Len(yData), samplingRate * 10)

\* yData.slice(0, maxSamples); both chart functions compute it from the same
\* yData, which they do not change
limitedData == js_slice(yData, 0, maxSamples)

\* mutant: the rate is taken for kHz
floor_tenth_of_khz(sr) == (sr \div 1000) \div 10

\* Math.floor(samplingRate * 0.1)
floor_tenth(sr) == sr \div 10

\* mutant: the slice runs one sample into the next window
window_at_overlapping(data, k, w) == js_slice(data, k, k + w + 1)

\* mutant: a window that is not full is empty
window_at_full_only(data, k, w) ==
    IF k + w <= Len(data) THEN js_slice(data, k, k + w) ELSE <<>>

\* limitedData.slice(i, i + windowSize)
window_at(data, k, w) == js_slice(data, k, k + w)

\* if (window.length > 0)
emits(window) == Len(window) > 0

\* mutant: the sum is not divided by the number of samples
avgValue_undivided(window) == Rat(SumSeq(window), 1)

\* window.reduce((sum, val) => sum + val, 0) / window.length
avgValue(window) == Rat(SumSeq(window), Len(window))

\* Math.sqrt(window.reduce((sum, val) => sum + val * val, 0) / window.length)
rmsValue(window) == Sqrt(SumSqSeq(window), Len(window))

\* mutant: the centre of the window
mean_timestamp_centre(k, sr) == Rat(2 * k + sr \div 10, 2 * sr)

\* timeData.push(i / samplingRate) of updateIntegratedChart
mean_timestamp(k, sr) == Rat(k, sr)

\* timeData.push(i / samplingRate) of updateRMSChart
rms_timestamp(k, sr) == Rat(k, sr)

\* the number of signal shapes
MaxShape == 2

\* the k-th sample of a recording of the given shape
Sample(shape, k) == ((k * (5 + 2 * shape)) % 13) - 6

Recording(shape, n) == [k \in 1..n |-> Sample(shape, k)]

\* lengths of the recordings of a source sampled at sr: around the empty
\* series, one window, two windows and the horizon
Lengths(sr) ==
    LET w == sr \div 10
        h == sr * 10
    IN  (0..MaxSmallLen)
        \cup {w - 1, w, w + 1, 2 * w, 2 * w + MaxSmallLen, 3 * w - 1}
        \cup {h - w - 1, h - w, h - MaxSmallLen, h - 1, h, h + 1, h + MaxOver}

SourceTypes == {"Noraxon", "Other"}

InitCharts ==
    /\ series = <<>>
    /\ StatsIdle
    /\ ServerIdle
    /\ RunIdle
    /\ \E type \in SourceTypes :
          /\ sampling_rate = source_sampling_rate(type)
          /\ \E n \in Lengths(source_sampling_rate(type)), shape \in 1..MaxShape :
                yData = Recording(shape, n)
    /\ pc = "integrated"
    /\ windowSize = 0
    /\ loopIndex = 0
    /\ sampledY = <<>>
    /\ timeData = <<>>
    /\ rmsValues = <<>>
    /\ rmsTimeData = <<>>
    /\ meanWindows = <<>>
    /\ rmsWindows = <<>>

\* updateIntegratedChart up to the loop
UpdateIntegratedChart ==
    /\ pc = "integrated"
    /\ windowSize' = floor_tenth(samplingRate)
    /\ sampledY' = <<>>
    /\ timeData' = <<>>
    /\ meanWindows' = <<>>
    /\ loopIndex' = 0
    /\ pc' = "mean"
    /\ UNCHANGED <<statsVars, serverVars, runVars, yData, sampling_rate, rmsValues, rmsTimeData,
                   rmsWindows>>

\* one iteration of the loop of updateIntegratedChart
MeanIteration ==
    /\ pc = "mean"
    /\ loopIndex < Len(limitedData)
    /\ LET window == window_at(limitedData, loopIndex, windowSize)
       IN  IF emits(window)
           THEN /\ sampledY' = Append(sampledY, avgValue(window))
                /\ timeData' = Append(timeData,
                                      mean_timestamp(loopIndex, samplingRate))
                /\ meanWindows' = Append(meanWindows,
                                     [start |-> loopIndex, len |-> Len(window)])
           ELSE UNCHANGED <<sampledY, timeData, meanWindows>>
    /\ loopIndex' = loopIndex + windowSize
    /\ UNCHANGED <<statsVars, serverVars, runVars, yData, sampling_rate, pc, windowSize, rmsValues, rmsTimeData, rmsWindows>>

\* the loop of updateIntegratedChart ends; the trace is plotted
MeanLoopExit ==
    /\ pc = "mean"
    /\ ~(loopIndex < Len(limitedData))
    /\ pc' = "rms_chart"
    /\ UNCHANGED <<statsVars, serverVars, runVars, yData, sampling_rate, windowSize, loopIndex, sampledY, timeData, rmsValues, rmsTimeData,
                   meanWindows, rmsWindows>>

\* updateRMSChart up to the loop
UpdateRMSChart ==
    /\ pc = "rms_chart"
    /\ windowSize' = floor_tenth(samplingRate)
    /\ rmsValues' = <<>>
    /\ rmsTimeData' = <<>>
    /\ rmsWindows' = <<>>
    /\ loopIndex' = 0
    /\ pc' = "rms"
    /\ UNCHANGED <<statsVars, serverVars, runVars, yData, sampling_rate, sampledY, timeData,
                   meanWindows>>

\* one iteration of the loop of updateRMSChart
RmsIteration ==
    /\ pc = "rms"
    /\ loopIndex < Len(limitedData)
    /\ LET window == window_at(limitedData, loopIndex, windowSize)
       IN  IF emits(window)
           THEN /\ rmsValues' = Append(rmsValues, rmsValue(window))
                /\ rmsTimeData' = Append(rmsTimeData,
                                         rms_timestamp(loopIndex, samplingRate))
                /\ rmsWindows' = Append(rmsWindows,
                                    [start |-> loopIndex, len |-> Len(window)])
           ELSE UNCHANGED <<rmsValues, rmsTimeData, rmsWindows>>
    /\ loopIndex' = loopIndex + windowSize
    /\ UNCHANGED <<statsVars, serverVars, runVars, yData, sampling_rate, pc, windowSize, sampledY, timeData, meanWindows>>

\* the loop of updateRMSChart ends; the trace is plotted
RmsLoopExit ==
    /\ pc = "rms"
    /\ ~(loopIndex < Len(limitedData))
    /\ pc' = "done"
    /\ UNCHANGED <<statsVars, serverVars, runVars, yData, sampling_rate, windowSize, loopIndex, sampledY, timeData, rmsValues, rmsTimeData,
                   meanWindows, rmsWindows>>

NextCharts ==
    \/ UpdateIntegratedChart
    \/ MeanIteration
    \/ MeanLoopExit
    \/ UpdateRMSChart
    \/ RmsIteration
    \/ RmsLoopExit

SpecCharts == InitCharts /\ [][NextCharts]_vars

----------------------------------------------------------------------------
(* Properties of the windowing loops *)

\* the loop of updateIntegratedChart / updateRMSChart has run to its end
MeanComplete == pc \in {"rms_chart", "rms", "done"}
RmsComplete == pc = "done"

\* the number of samples within the 10 s horizon
Horizon == IF Len(yData) <= sampling_rate * 10 THEN Len(yData)
           ELSE sampling_rate * 10

\* the nominal window length floor(samplingRate * 0.1)
Nominal == sampling_rate \div 10

\* x[lo]^p + ... + x[hi]^p for p = 1 or 2
RECURSIVE RangeSum(_, _, _, _)
RangeSum(x, lo, hi, p) ==
    IF hi < lo THEN 0
    ELSE IF hi - lo < 3
    THEN LET f(j) == IF j > hi THEN 0
                     ELSE IF p = 1 THEN x[j] ELSE x[j] * x[j]
         IN  f(lo) + f(lo + 1) + f(lo + 2)
    ELSE LET third == (hi - lo + 1) \div 3
         IN  RangeSum(x, lo, lo + third - 1, p)
               + RangeSum(x, lo + third, lo + 2 * third - 1, p)
               + RangeSum(x, lo + 2 * third, hi, p)

TotalLength(ws) == RangeSum([k \in 1..Len(ws) |-> ws[k].len], 1, Len(ws), 1)

\* the windows lie within the first n samples and no two share a sample
Disjoint(ws, n) ==
    /\ \A k \in 1..Len(ws) :
          ws[k].len > 0 /\ 0 <= ws[k].start /\ ws[k].start + ws[k].len <= n
    /\ \A j, k \in 1..Len(ws) :
          j < k => \/ ws[j].start + ws[j].len <= ws[k].start
                   \/ ws[k].start + ws[k].len <= ws[j].start

\* C8: in both computations the lengths of the emitted windows sum to
\* min(len(series), samplingRate * 10): every sample within the horizon is in
\* exactly one window (the windows are disjoint, lie within the horizon and
\* together are as long as it).
C8_WindowsPartition ==
    /\ Disjoint(meanWindows, Horizon)
    /\ Disjoint(rmsWindows, Horizon)
    /\ MeanComplete => TotalLength(meanWindows) = Horizon
    /\ RmsComplete => TotalLength(rmsWindows) = Horizon

\* the windowed means of a recording longer than the horizon are complete
C8_Witness ==
    /\ MeanComplete
    /\ Len(yData) > Horizon
    /\ Len(meanWindows) > 1

\* window k (counted from 1) of ws starts at (k-1)*w and holds w samples,
\* the last one the remaining ones
Consecutive(ws, w, n) ==
    \A k \in 1..Len(ws) :
        /\ ws[k].start = (k - 1) * w
        /\ ws[k].len = (IF k * w <= n THEN w ELSE n - (k - 1) * w)
        /\ ws[k].len > 0

\* C9: the series within the horizon is split into consecutive windows
\* [k*w, min((k+1)*w, n)) with w = floor(samplingRate * 0.1); all windows but
\* possibly the last hold w samples, a shorter last window is emitted with
\* the mean / RMS of its own samples, and there are ceil(n / w) windows.
\* (The values are compared when a chart function returns and when both
\* have; no step in between changes them.)
C9_ConsecutiveWindows ==
    /\ Consecutive(meanWindows, Nominal, Horizon)
    /\ Consecutive(rmsWindows, Nominal, Horizon)
    /\ Len(sampledY) = Len(meanWindows)
    /\ Len(rmsValues) = Len(rmsWindows)
    /\ MeanComplete =>
          Len(meanWindows) = (Horizon + Nominal - 1) \div Nominal
    /\ RmsComplete =>
          Len(rmsWindows) = (Horizon + Nominal - 1) \div Nominal
    /\ pc \in {"rms_chart", "done"} =>
          /\ \A k \in 1..Len(meanWindows) :
                LET lo == meanWindows[k].start + 1
                    hi == meanWindows[k].start + meanWindows[k].len
                IN  RatIs(sampledY[k], RangeSum(yData, lo, hi, 1), hi - lo + 1)
    /\ pc = "done" =>
          /\ \A k \in 1..Len(rmsWindows) :
                LET lo == rmsWindows[k].start + 1
                    hi == rmsWindows[k].start + rmsWindows[k].len
                IN  SquareIs(rmsValues[k], RangeSum(yData, lo, hi, 2),
                             hi - lo + 1)

\* a completed run whose last window is shorter than the nominal window
C9_Witness ==
    /\ RmsComplete
    /\ Len(meanWindows) > 1
    /\ meanWindows[Len(meanWindows)].len < Nominal
    /\ rmsWindows[Len(rmsWindows)].len < Nominal

\* C10: every window is labelled with firstSampleIndex / samplingRate: the
\* first with 0, the k-th (from 0) with k * w / samplingRate; the mean
\* series and the RMS series carry the same timestamps.
C10_LeadingEdgeTimestamps ==
    /\ Len(timeData) = Len(meanWindows)
    /\ Len(rmsTimeData) = Len(rmsWindows)
    /\ LET w == Nominal
       IN  /\ \A k \in 1..Len(timeData) :
                 /\ RatIs(timeData[k], meanWindows[k].start, sampling_rate)
                 /\ RatIs(timeData[k], (k - 1) * w, sampling_rate)
           /\ \A k \in 1..Len(rmsTimeData) :
                 /\ RatIs(rmsTimeData[k], rmsWindows[k].start, sampling_rate)
                 /\ RatIs(rmsTimeData[k], (k - 1) * w, sampling_rate)
    /\ timeData # <<>> => timeData[1] = Zero
    /\ rmsTimeData # <<>> => rmsTimeData[1] = Zero
    /\ RmsComplete => timeData = rmsTimeData

C10_Witness ==
    /\ RmsComplete
    /\ Len(timeData) > 2
    /\ timeData[3] = Rat(1, 5)

\* the samples within the horizon
Prefix == SubSeq(yData, 1, Horizon)

\* the values are those of the consecutive windows of width w of x
MeansOf(values, x, w) ==
    \A k \in 1..Len(values) :
        LET lo == (k - 1) * w + 1
            hi == IF k * w <= Len(x) THEN k * w ELSE Len(x)
        IN  RatIs(values[k], RangeSum(x, lo, hi, 1), hi - lo + 1)

RmsOf(values, x, w) ==
    \A k \in 1..Len(values) :
        LET lo == (k - 1) * w + 1
            hi == IF k * w <= Len(x) THEN k * w ELSE Len(x)
        IN  SquareIs(values[k], RangeSum(x, lo, hi, 2), hi - lo + 1)

AllFull(ws, w) == \A k \in 1..Len(ws) : ws[k].len = w

\* C11: only the first min(len(series), samplingRate * 10) samples reach a
\* window, so the output is that of the truncated series whatever follows
\* it; at 1000 / 2000 Hz there are never more than 100 windows, and a series
\* of at least 10 s gives exactly 100 full windows (10,500 samples at
\* 1000 Hz: 10,000 samples in 100 windows).
C11_HorizonTruncation ==
    /\ Len(meanWindows) <= 100
    /\ Len(rmsWindows) <= 100
    /\ \A k \in 1..Len(meanWindows) :
          meanWindows[k].start + meanWindows[k].len <= sampling_rate * 10
    /\ \A k \in 1..Len(rmsWindows) :
          rmsWindows[k].start + rmsWindows[k].len <= sampling_rate * 10
    /\ pc \in {"rms_chart", "done"} =>
          LET p == Prefix IN MeansOf(sampledY, p, Nominal)
    /\ pc = "done" =>
          LET p == Prefix IN RmsOf(rmsValues, p, Nominal)
    /\ (MeanComplete /\ Len(yData) >= sampling_rate * 10) =>
          Len(meanWindows) = 100 /\ AllFull(meanWindows, Nominal)
    /\ (RmsComplete /\ Len(yData) >= sampling_rate * 10) =>
          Len(rmsWindows) = 100 /\ AllFull(rmsWindows, Nominal)
    /\ (MeanComplete /\ sampling_rate = 1000 /\ Len(yData) = 10500) =>
          TotalLength(meanWindows) = 10000 /\ Len(meanWindows) = 100

\* the windowed means of a recording that runs past the horizon
C11_Witness ==
    /\ pc = "rms_chart"
    /\ Len(yData) > sampling_rate * 10
    /\ Len(sampledY) = 100

\* v lies between the smallest and the largest of x[lo..hi]
Within(v, x, lo, hi) ==
    /\ ~v.root
    /\ \E j \in lo..hi : x[j] * v.d <= v.n
    /\ \E j \in lo..hi : v.n <= x[j] * v.d

MaxLowRate == 12

\* the chart functions on a data object of any sampling rate: the two
\* configured rates, and the rates 0 (none: || 1000) to MaxLowRate on short
\* series
InitWindowing ==
    \/ InitCharts
    \/ /\ series = <<>>
       /\ StatsIdle
       /\ ServerIdle
       /\ RunIdle
       /\ \E sr \in 0..MaxLowRate, n \in 0..MaxSmallLen, shape \in 1..MaxShape :
             /\ sampling_rate = sr
             /\ yData = Recording(shape, n)
       /\ pc = "integrated"
       /\ windowSize = 0
       /\ loopIndex = 0
       /\ sampledY = <<>>
       /\ timeData = <<>>
       /\ rmsValues = <<>>
       /\ rmsTimeData = <<>>
       /\ meanWindows = <<>>
       /\ rmsWindows = <<>>

\* for (let i = 0; i < limitedData.length; i += windowSize): the loop control
\* of MeanIteration and RmsIteration (limitedData.length is maxSamples)
LoopControl ==
    /\ pc \in {"mean", "rms"}
    /\ loopIndex < maxSamples
    /\ loopIndex' = loopIndex + windowSize

\* the script runs a handler to completion: a step that is possible is taken
SpecWindowing ==
    /\ InitWindowing
    /\ [][NextCharts]_vars
    /\ WF_vars(UpdateIntegratedChart)
    /\ WF_loopIndex(LoopControl)
    /\ WF_vars(MeanLoopExit)
    /\ WF_vars(UpdateRMSChart)
    /\ WF_vars(RmsLoopExit)

Looping == pc \in {"mean", "rms"}

----------------------------------------------------------------------------
(* One run of the analysis: the loop over file_configs *)

\* file_configs, in insertion order ("419" is '419-電阻式', "445" is
\* '445-耦合式'); quad_col / bicep_col are the two columns of a table below
file_configs ==
    <<[name |-> "419", type |-> "Other"],
      [name |-> "445", type |-> "Other"],
      [name |-> "Noraxon", type |-> "Noraxon"]>>

\* skiprows of the Noraxon read_csv of analyze_emg_data
skiprows_web == 3
\* skiprows of the Noraxon read_csv of load_and_process_data
skiprows_improved == 4

\* os.path.exists(filepath) is False
MissingFile ==
    [kind |-> "missing", columns |-> FALSE, quad |-> <<>>, bicep |-> <<>>,
     header_line |-> 0, reread |-> "ok"]

\* pd.read_csv raises (encoding error, ragged rows, empty file)
UnparseableFile ==
    [kind |-> "unparseable", columns |-> FALSE, quad |-> <<>>, bicep |-> <<>>,
     header_line |-> 0, reread |-> "ok"]

\* a table without the configured columns (fewer than 8 columns, or no
\* column of the configured label)
NoColumnsFile(hl) ==
    [kind |-> "table", columns |-> FALSE, quad |-> <<>>, bicep |-> <<>>,
     header_line |-> hl, reread |-> "ok"]

\* a table whose quad_col / bicep_col hold the cells q / b; the labels stand
\* on line hl (0-based) of a Noraxon export (hl is 0 for the other files,
\* which have no header); rr is what becomes of the file after the first
\* read: "ok", or the read for the preview / for the time series raises
\* (file removed or replaced meanwhile, out of memory)
TableFile(q, b, hl, rr) ==
    [kind |-> "table", columns |-> TRUE, quad |-> q, bicep |-> b,
     header_line |-> hl, reread |-> rr]

\* the columns of the tables, three rows each: numeric with a gap, signed
\* with a gap, zeros with a gap, and no numeric cell at all
QuadCells == {<<Num(3), NaNCell, Num(4)>>, <<NaNCell, NaNCell, NaNCell>>}
BicepCells == {<<Num(0), Num(-3), NaNCell>>, <<Num(0), NaNCell, Num(0)>>,
               <<NaNCell, NaNCell, NaNCell>>}

FullTable(hl, rr) ==
    TableFile(<<Num(3), NaNCell, Num(4)>>, <<Num(0), Num(-3), NaNCell>>, hl, rr)

\* the rows of a recording long enough to be trimmed
TrimRows == 21

\* TrimRows samples, all 0 but one spike at either end of the range
SpikedZeros ==
    [r \in 1..TrimRows |->
        Num(IF r = 1 THEN ExtremeVal
            ELSE IF r = TrimRows THEN -ExtremeVal ELSE 0)]

\* tables of TrimRows rows whose quadriceps column loses its two extremes and
\* whose biceps column loses its spikes (leaving zeros) or its two extremes
TrimmedTables(hl) ==
    {TableFile(LongColumn(TrimRows, 1, 1, "distinct", FALSE), b, hl, "ok") :
        b \in {SpikedZeros, LongColumn(TrimRows, 1, 1, "pairs", FALSE)}}

Rereads == {"ok", "preview_fails", "series_fails"}

\* the line the program of the web report expects the labels on
HeaderLine(type) == IF type = "Noraxon" THEN skiprows_web ELSE 0

\* the states of the file of a source of the given type
FileStates(type) ==
    {MissingFile, UnparseableFile, NoColumnsFile(HeaderLine(type))}
    \cup {TableFile(q, b, HeaderLine(type), "ok") :
             q \in QuadCells, b \in BicepCells}
    \cup {FullTable(HeaderLine(type), rr) : rr \in Rereads}
    \cup TrimmedTables(HeaderLine(type))
    \cup (IF type = "Noraxon" THEN {FullTable(skiprows_improved, "ok")}
          ELSE {})

\* pd.read_csv(filepath, ...) returns a frame
parses(f) == f.kind = "table"

\* df[config['quad_col']] and df[config['bicep_col']] exist: the labels of a
\* Noraxon frame are those of the line after the skipped ones
selects(f, type, skip) ==
    f.columns /\ (type = "Noraxon" => f.header_line = skip)

\* mutant: a cell that is not a number becomes 0
RECURSIVE to_numeric_fillna(_)
to_numeric_fillna(col) ==
    IF col = <<>> THEN <<>>
    ELSE <<IF Head(col).num THEN Head(col).v ELSE 0>>
         \o to_numeric_fillna(Tail(col))

\* pd.to_numeric(df_full[...], errors='coerce').dropna().tolist()
tolist(col) == to_numeric_dropna(col)

\* mutant: the position selects the other channel's column
quad_series_other(f) == tolist(f.bicep)

quad_series(f) == tolist(f.quad)

\* mutant: the rows are dropped where either channel is not a number
bicep_series_joint(f) ==
    LET rows == {r \in DOMAIN f.bicep : f.quad[r].num /\ f.bicep[r].num}
    IN  tolist([r \in DOMAIN f.bicep |->
                   IF r \in rows THEN f.bicep[r] ELSE NaNCell])

bicep_series(f) == tolist(f.bicep)

\* calculate_statistics of emg_analysis_improved
calculate_statistics_improved(col) ==
    LET ns == to_numeric_dropna(col)
    IN  IF ns = <<>>
        THEN [RMS |-> Zero, Mean |-> Zero, Std |-> Zero, Max |-> Zero,
              Min |-> Zero, Count |-> 0]
        ELSE [RMS |-> np_rms(ns), Mean |-> np_mean(ns), Std |-> np_std(ns),
              Max |-> np_max(ns), Min |-> np_min(ns), Count |-> Len(ns)]

\* mutant: the root mean square of all cells, a cell that is not a number
\* counting as 0
calculate_rms_of_cells(col) ==
    IF col = <<>> THEN Zero
    ELSE np_rms(to_numeric_fillna(col))

\* calculate_rms of emg_analysis_improved
calculate_rms(col) ==
    LET ns == to_numeric_dropna(col)
    IN  IF ns = <<>> THEN Zero ELSE np_rms(ns)

\* how far an iteration of the loop of analyze_emg_data gets
web_outcome(f, type) ==
    IF f.kind = "missing" THEN "missing"
    ELSE IF ~parses(f) \/ ~selects(f, type, skiprows_web) THEN "error"
    ELSE IF calculate_statistics(f.quad, TRUE).raised
            \/ calculate_statistics(f.bicep, TRUE).raised THEN "error"
    ELSE IF f.reread = "preview_fails" THEN "error_preview"
    ELSE IF f.reread = "series_fails" THEN "error_series"
    ELSE "ok"

\* how far an iteration of the loop of load_and_process_data gets
improved_outcome(f, type) ==
    IF f.kind = "missing" THEN "missing"
    ELSE IF ~parses(f) \/ ~selects(f, type, skiprows_improved) THEN "error"
    ELSE "ok"

\* mutant: the map is rebuilt with the one entry
Put_alone(map, name, v) == (name :> v)

\* map[name] = v
Put(map, name, v) == (name :> v) @@ map

\* mutant: the raw values are the headline
web_result_raw(qs, bs) ==
    [quad_RMS |-> qs.RMS, bicep_RMS |-> bs.RMS,
     quad_RMS_orig |-> qs.RMS, bicep_RMS_orig |-> bs.RMS]

\* analysis_results[name] of analyze_emg_data
web_result(qs, bs) ==
    [quad_RMS |-> qs.RMS_filtered, bicep_RMS |-> bs.RMS_filtered,
     quad_RMS_orig |-> qs.RMS, bicep_RMS_orig |-> bs.RMS]

\* analysis_results[name] of load_and_process_data
improved_result(qs, bs) == [quad_RMS |-> qs.RMS, bicep_RMS |-> bs.RMS]

\* raw_data_preview[name]
preview_entry(f, type) == [type |-> type, quad |-> f.quad, bicep |-> f.bicep]

\* time_series_data[name]
series_entry(f, type) ==
    [quad_data |-> quad_series(f), bicep_data |-> bicep_series(f),
     sampling_rate |-> source_sampling_rate(type)]

\* mutant: a missing file ends the loop
after_missing_break(k) == Len(file_configs) + 1

\* continue after os.path.exists(filepath) is False
after_missing(k) == k + 1

\* mutant: an error ends the loop
after_error_break(k) == Len(file_configs) + 1

\* continue of the except clause
after_error(k) == k + 1

InitRun ==
    /\ series = <<>>
    /\ StatsIdle
    /\ ServerIdle
    /\ ChartsIdle
    /\ program \in {"web", "improved"}
    /\ \E f1 \in FileStates("Other"), f2 \in FileStates("Other"),
          f3 \in FileStates("Noraxon") :
          disk = ("419" :> f1) @@ ("445" :> f2) @@ ("Noraxon" :> f3)
    /\ run_pc = "loop"
    /\ loopPos = 1
    /\ analysis_results = <<>>
    /\ detailed_stats = <<>>
    /\ raw_data_preview = <<>>
    /\ time_series_data = <<>>
    /\ trail = <<>>
    /\ stage = <<>>
    /\ display = <<>>

\* one iteration of the loop of analyze_emg_data
AnalyzeSource ==
    /\ program = "web"
    /\ run_pc = "loop"
    /\ loopPos <= Len(file_configs)
    /\ LET name == file_configs[loopPos].name
           type == file_configs[loopPos].type
           f    == disk[name]
           o    == web_outcome(f, type)
           qs   == calculate_statistics(f.quad, TRUE).bundle[1]
           bs   == calculate_statistics(f.bicep, TRUE).bundle[1]
       IN  /\ analysis_results' =
                 IF o \in {"error_preview", "error_series", "ok"}
                 THEN Put(analysis_results, name, web_result(qs, bs))
                 ELSE analysis_results
           /\ detailed_stats' =
                 IF o \in {"error_preview", "error_series", "ok"}
                 THEN Put(detailed_stats, name, [quad |-> qs, bicep |-> bs])
                 ELSE detailed_stats
           /\ raw_data_preview' =
                 IF o \in {"error_series", "ok"}
                 THEN Put(raw_data_preview, name, preview_entry(f, type))
                 ELSE raw_data_preview
           /\ time_series_data' =
                 IF o = "ok"
                 THEN Put(time_series_data, name, series_entry(f, type))
                 ELSE time_series_data
           /\ trail' = Append(trail, [name |-> name, outcome |-> o])
           /\ loopPos' = IF o = "missing" THEN after_missing(loopPos)
                         ELSE IF o = "ok" THEN loopPos + 1
                         ELSE after_error(loopPos)
    /\ UNCHANGED <<statsVars, serverVars, chartVars, program, disk, stage, run_pc, display>>

\* one iteration of the loop of load_and_process_data
LoadAndProcessSource ==
    /\ program = "improved"
    /\ run_pc = "loop"
    /\ loopPos <= Len(file_configs)
    /\ LET name == file_configs[loopPos].name
           type == file_configs[loopPos].type
           f    == disk[name]
           o    == improved_outcome(f, type)
           qs   == calculate_statistics_improved(f.quad)
           bs   == calculate_statistics_improved(f.bicep)
       IN  /\ analysis_results' =
                 IF o = "ok"
                 THEN Put(analysis_results, name, improved_result(qs, bs))
                 ELSE analysis_results
           /\ detailed_stats' =
                 IF o = "ok"
                 THEN Put(detailed_stats, name, [quad |-> qs, bicep |-> bs])
                 ELSE detailed_stats
           /\ raw_data_preview' =
                 IF o = "ok"
                 THEN Put(raw_data_preview, name, preview_entry(f, type))
                 ELSE raw_data_preview
           /\ trail' = Append(trail, [name |-> name, outcome |-> o])
           /\ loopPos' = IF o = "missing" THEN after_missing(loopPos)
                         ELSE IF o = "ok" THEN loopPos + 1
                         ELSE after_error(loopPos)
    /\ UNCHANGED <<statsVars, serverVars, chartVars, program, disk, stage, run_pc,
                   time_series_data, display>>

\* return analysis_results, detailed_stats, ...
Return ==
    /\ run_pc = "loop"
    /\ loopPos > Len(file_configs)
    /\ run_pc' = "returned"
    /\ UNCHANGED <<statsVars, serverVars, chartVars, program, disk, stage, loopPos,
                   analysis_results, detailed_stats, raw_data_preview,
                   time_series_data, trail, display>>

----------------------------------------------------------------------------
(* The report built from the maps *)

\* a cell of the report: a finite number (neg: below zero, v: magnitude),
\* the numbers NaN and Infinity, or the marker 'N/A'
JsNum(neg, v) == [kind |-> "num", neg |-> neg, v |-> v]
JsNaN == [kind |-> "NaN", neg |-> FALSE, v |-> Zero]
JsInfinity(neg) == [kind |-> "Infinity", neg |-> neg, v |-> Zero]
NotAvailable == [kind |-> "N/A", neg |-> FALSE, v |-> Zero]

\* |a| / |b| for b # 0
Quotient(a, b) ==
    LET sa == Square(a)
        sb == Square(b)
    IN  Sqrt(sa.n * sb.d, sa.d * sb.n)

\* the operator / of the script on two numbers
js_div(a, b) ==
    IF b.n = 0
    THEN IF a.n = 0 THEN JsNaN ELSE JsInfinity(a.n < 0)
    ELSE JsNum(a.n # 0 /\ ((a.n < 0) # (b.n < 0)), Quotient(a, b))

\* bicepRMS !== 0 ? (quadRMS / bicepRMS).toFixed(3) : 'N/A'
ratio(quadRMS, bicepRMS) ==
    IF bicepRMS # Zero THEN js_div(quadRMS, bicepRMS) ELSE NotAvailable

\* stats.Mean !== 0 ? ((stats.Std / stats.Mean) * 100).toFixed(2) : 'N/A'
cv(Std, Mean) == IF Mean # Zero THEN js_div(Std, Mean) ELSE NotAvailable

\* ((stats.Outliers_removed / stats.Count) * 100).toFixed(1)
outliers_percent(st) ==
    js_div(Rat(st.Outliers_removed, 1), Rat(st.Count, 1))

\* the cells of one muscle in the card of displayDetailedStats
muscle_cells(st) ==
    [cv_filtered |-> cv(st.Std_filtered, st.Mean_filtered),
     cv |-> cv(st.Std, st.Mean),
     outliers |-> outliers_percent(st)]

\* quadMean / bicepMean of createTimeSeriesChart
chart_mean(data) == js_div(Rat(SumSeq(data), 1), Rat(Len(data), 1))

\* quadStd / bicepStd of createTimeSeriesChart
chart_std(data) ==
    IF data = <<>> THEN JsNaN ELSE JsNum(FALSE, np_std(data))

\* the statistics band of createTimeSeriesChart: <<>> without a data set
chart_cells(name) ==
    IF name \in DOMAIN time_series_data
    THEN LET data == time_series_data[name]
         IN  <<[quadMean |-> chart_mean(data.quad_data),
                quadStd |-> chart_std(data.quad_data),
                bicepMean |-> chart_mean(data.bicep_data),
                bicepStd |-> chart_std(data.bicep_data)]>>
    ELSE <<>>

\* the derived cells of one source
source_cells(name) ==
    [ratio |-> ratio(analysis_results[name].quad_RMS,
                     analysis_results[name].bicep_RMS),
     quad |-> muscle_cells(detailed_stats[name].quad),
     bicep |-> muscle_cells(detailed_stats[name].bicep),
     chart |-> chart_cells(name)]

\* generate_html_report after analyze_emg_data, and init() of the page
ReportInit ==
    /\ program = "web"
    /\ run_pc = "returned"
    /\ IF DOMAIN analysis_results # {}
       THEN /\ display' = [name \in DOMAIN analysis_results |->
                              source_cells(name)]
            /\ run_pc' = "report"
       ELSE /\ display' = display
            /\ run_pc' = "no_data"
    /\ UNCHANGED <<statsVars, serverVars, chartVars, program, disk, stage, loopPos,
                   analysis_results, detailed_stats, raw_data_preview,
                   time_series_data, trail>>

\* main() of emg_analysis_improved after load_and_process_data
Main ==
    /\ program = "improved"
    /\ run_pc = "returned"
    /\ run_pc' = IF analysis_results = <<>> THEN "no_data" ELSE "report"
    /\ UNCHANGED <<statsVars, serverVars, chartVars, program, disk, stage, loopPos,
                   analysis_results, detailed_stats, raw_data_preview,
                   time_series_data, trail, display>>

Muscles == {"quad", "bicep"}

\* createIntegratedChart: a checked trace of a data set of timeSeriesData
SelectTrace ==
    /\ program = "web"
    /\ run_pc = "report"
    /\ pc = "idle"
    /\ \E name \in DOMAIN time_series_data, muscle \in Muscles :
          LET data == time_series_data[name]
          IN  /\ yData' = IF muscle = "quad" THEN data.quad_data
                          ELSE data.bicep_data
              /\ sampling_rate' = data.sampling_rate
    /\ pc' = "integrated"
    /\ UNCHANGED <<statsVars, serverVars, runVars, windowSize, loopIndex, sampledY,
                   timeData, rmsValues, rmsTimeData, meanWindows, rmsWindows>>

NextRun ==
    \/ AnalyzeSource
    \/ LoadAndProcessSource
    \/ Return
    \/ ReportInit
    \/ Main
    \/ SelectTrace
    \/ UpdateIntegratedChart
    \/ MeanIteration
    \/ MeanLoopExit
    \/ UpdateRMSChart
    \/ RmsIteration
    \/ RmsLoopExit

SpecRun == InitRun /\ [][NextRun]_vars

----------------------------------------------------------------------------
(* Properties of the run *)

\* the loop is over
Finished == run_pc \in {"returned", "report", "no_data"}

\* the report layer has decided between the report and 'no usable data'
Decided == run_pc \in {"report", "no_data"}

\* the numeric cells of a column, in row order
NumericOf(col) ==
    LET sel == SelectSeq(col, IsNum)
    IN  [r \in 1..Len(sel) |-> sel[r].v]

\* q is the root mean square of x (0 for no samples)
RmsIs(q, x) ==
    IF x = <<>> THEN q = Zero ELSE SquareIs(q, Sum2(x), Len(x))

\* the file of the k-th source
FileOf(k) == disk[file_configs[k].name]

\* every step on the k-th file succeeds in the running program
Loads(k) ==
    LET f == FileOf(k)
    IN  /\ f.kind = "table"
        /\ f.columns
        /\ file_configs[k].type = "Noraxon" =>
              f.header_line = (IF program = "web" THEN skiprows_web
                               ELSE skiprows_improved)
        /\ program = "web" => f.reread = "ok"

\* the maps the running program fills
Maps ==
    IF program = "web"
    THEN <<analysis_results, detailed_stats, raw_data_preview,
           time_series_data>>
    ELSE <<analysis_results, detailed_stats, raw_data_preview>>

InAll(name) == \A j \in DOMAIN Maps : name \in DOMAIN Maps[j]
InNone(name) ==
    /\ name \notin DOMAIN analysis_results
    /\ name \notin DOMAIN detailed_stats
    /\ name \notin DOMAIN raw_data_preview
    /\ name \notin DOMAIN time_series_data

\* the stored values of the k-th source are those of its own file
OwnValues(k) ==
    LET name == file_configs[k].name
        f    == FileOf(k)
    IN  /\ RmsIs(detailed_stats[name].quad.RMS, NumericOf(f.quad))
        /\ RmsIs(detailed_stats[name].bicep.RMS, NumericOf(f.bicep))
        /\ analysis_results[name].quad_RMS
              = (IF program = "web" THEN detailed_stats[name].quad.RMS_filtered
                 ELSE detailed_stats[name].quad.RMS)
        /\ analysis_results[name].bicep_RMS
              = (IF program = "web" THEN detailed_stats[name].bicep.RMS_filtered
                 ELSE detailed_stats[name].bicep.RMS)
        /\ detailed_stats[name].quad.Count = Len(NumericOf(f.quad))
        /\ detailed_stats[name].bicep.Count = Len(NumericOf(f.bicep))
        /\ raw_data_preview[name].quad = f.quad
        /\ raw_data_preview[name].bicep = f.bicep
        /\ program = "web" =>
              /\ time_series_data[name].quad_data = NumericOf(f.quad)
              /\ time_series_data[name].bicep_data = NumericOf(f.bicep)

\* C14: a source whose file does not exist is skipped without raising: it
\* is in none of the maps, the loop goes on to the next source, a source is
\* in a map only if its file exists and loads, every source whose file
\* loads is in all maps with the values of its own file, and when no file
\* exists the maps are empty and the report is 'no usable data'.
C14_MissingSkipped ==
    /\ \A k \in DOMAIN file_configs :
          LET name == file_configs[k].name
          IN  /\ FileOf(k).kind = "missing" => InNone(name)
              /\ (FileOf(k).kind = "missing" /\ loopPos > k) =>
                    /\ Len(trail) >= k
                    /\ trail[k] = [name |-> name, outcome |-> "missing"]
              /\ name \in DOMAIN analysis_results =>
                    FileOf(k).kind = "table" /\ FileOf(k).columns
              /\ (Loads(k) /\ loopPos > k) => InAll(name) /\ OwnValues(k)
    /\ Finished => Len(trail) = Len(file_configs)
    /\ (\A k \in DOMAIN file_configs : FileOf(k).kind = "missing") =>
          /\ analysis_results = <<>> /\ detailed_stats = <<>>
          /\ raw_data_preview = <<>> /\ time_series_data = <<>>
          /\ Decided => run_pc = "no_data"

\* the first file is missing and the report shows the second source
C14_Witness ==
    /\ run_pc = "report"
    /\ FileOf(1).kind = "missing"
    /\ Loads(2)
    /\ "445" \in DOMAIN analysis_results

\* the iteration on the k-th source raised
Failed(k) ==
    /\ Len(trail) >= k
    /\ trail[k].outcome \in {"error", "error_preview", "error_series"}

\* C15: a source whose processing raises at any step is in none of the
\* four maps, so the four maps of analyze_emg_data have the same key set.
C15_AllOrNone ==
    (program = "web" /\ Finished) =>
        /\ \A k \in DOMAIN file_configs :
              Failed(k) => InNone(file_configs[k].name)
        /\ DOMAIN analysis_results = DOMAIN detailed_stats
        /\ DOMAIN analysis_results = DOMAIN raw_data_preview
        /\ DOMAIN analysis_results = DOMAIN time_series_data

\* the entries of a map stay as they are
Kept(map, next) ==
    \A name \in DOMAIN map : name \in DOMAIN next /\ next[name] = map[name]

\* C16: an error on one source neither aborts the run nor disturbs the
\* other sources: every iteration, whatever its outcome, moves on to the
\* next source, so that all sources are processed in order before the
\* function returns; the entries stored for earlier sources never change;
\* and a source whose file loads is stored whatever failed before it.
C16_ErrorsStayLocal ==
    /\ [](/\ run_pc = "loop" => Len(trail) = loopPos - 1
          /\ \A k \in 1..Len(trail) : trail[k].name = file_configs[k].name
          /\ Finished => Len(trail) = Len(file_configs)
          /\ \A k \in DOMAIN file_configs :
                (Loads(k) /\ loopPos > k) => InAll(file_configs[k].name))
    /\ [][/\ Kept(analysis_results, analysis_results')
          /\ Kept(detailed_stats, detailed_stats')
          /\ Kept(raw_data_preview, raw_data_preview')
          /\ Kept(time_series_data, time_series_data')]_vars

\* the second source failed between two that are reported
C16_Witness ==
    /\ Decided
    /\ Failed(2)
    /\ Loads(1) /\ Loads(3)
    /\ InAll("419") /\ InAll("Noraxon")

\* the k-th source is unavailable: its file is missing or unparseable
Unavailable(k) ==
    \/ FileOf(k).kind = "missing"
    \/ Failed(k)

\* the k-th source is empty: neither selected channel has a numeric sample
EmptySource(k) ==
    /\ NumericOf(FileOf(k).quad) = <<>>
    /\ NumericOf(FileOf(k).bicep) = <<>>

\* C17: 'no usable data' is the outcome exactly when every configured
\* source was unavailable or empty; otherwise a report is produced.
C17_NoDataIffNothingUsable ==
    Decided =>
        (run_pc = "no_data" <=>
            \A k \in DOMAIN file_configs : Unavailable(k) \/ EmptySource(k))

CellOk(c) == c.kind \in {"num", "N/A"}

MuscleCellsOk(m, st) ==
    /\ CellOk(m.cv_filtered)
    /\ CellOk(m.cv)
    /\ CellOk(m.outliers)
    /\ st.Mean_filtered = Zero => m.cv_filtered.kind = "N/A"
    /\ st.Mean = Zero => m.cv.kind = "N/A"
    /\ st.Count = 0 => m.outliers.kind = "N/A"

\* C18: every derived ratio of the report (Q/B ratio, the two coefficients
\* of variation, the percentage of outliers removed, the mean and standard
\* deviation of the time-series chart) is 'N/A' when its denominator is
\* zero, and never Infinity or NaN.
C18_RatiosGuarded ==
    \A name \in DOMAIN display :
        LET d == display[name]
        IN  /\ CellOk(d.ratio)
            /\ analysis_results[name].bicep_RMS = Zero => d.ratio.kind = "N/A"
            /\ MuscleCellsOk(d.quad, detailed_stats[name].quad)
            /\ MuscleCellsOk(d.bicep, detailed_stats[name].bicep)
            /\ \A j \in DOMAIN d.chart :
                  /\ CellOk(d.chart[j].quadMean) /\ CellOk(d.chart[j].quadStd)
                  /\ CellOk(d.chart[j].bicepMean) /\ CellOk(d.chart[j].bicepStd)

\* every field of the bundle is zero
ZeroFilled(b) ==
    \A field \in DOMAIN b :
        IF field \in {"Count", "Count_filtered", "Outliers_removed"}
        THEN b[field] = 0
        ELSE b[field] = Zero

\* the sources of the web report whose files load
Loaded == {k \in DOMAIN file_configs : Loads(k) /\ loopPos > k}

\* C19: a source that loads with a channel without numeric samples is
\* still in every map; that channel has the zero-filled bundle and an empty
\* series, whose windowed means and RMS values are empty; the statistics
\* and the series of a channel are the same whatever the other channel of
\* its source holds.
C19_EmptyChannel ==
    /\ \A k \in Loaded :
          LET name == file_configs[k].name
              f    == FileOf(k)
          IN  /\ InAll(name)
              /\ NumericOf(f.quad) = <<>> =>
                    /\ ZeroFilled(detailed_stats[name].quad)
                    /\ analysis_results[name].quad_RMS = Zero
                    /\ program = "web" =>
                          time_series_data[name].quad_data = <<>>
              /\ NumericOf(f.bicep) = <<>> =>
                    /\ ZeroFilled(detailed_stats[name].bicep)
                    /\ analysis_results[name].bicep_RMS = Zero
                    /\ program = "web" =>
                          time_series_data[name].bicep_data = <<>>
    /\ \A k1 \in Loaded, k2 \in Loaded :
          LET n1 == file_configs[k1].name
              n2 == file_configs[k2].name
          IN  /\ FileOf(k1).bicep = FileOf(k2).bicep =>
                    /\ detailed_stats[n1].bicep = detailed_stats[n2].bicep
                    /\ program = "web" =>
                          /\ time_series_data[n1].bicep_data
                                = time_series_data[n2].bicep_data
                          /\ time_series_data[n1].bicep_data
                                = NumericOf(FileOf(k1).bicep)
              /\ FileOf(k1).quad = FileOf(k2).quad =>
                    /\ detailed_stats[n1].quad = detailed_stats[n2].quad
                    /\ program = "web" =>
                          /\ time_series_data[n1].quad_data
                                = time_series_data[n2].quad_data
                          /\ time_series_data[n1].quad_data
                                = NumericOf(FileOf(k1).quad)
    /\ (run_pc = "report" /\ yData = <<>>) =>
          /\ sampledY = <<>> /\ timeData = <<>>
          /\ rmsValues = <<>> /\ rmsTimeData = <<>>

\* both charts are drawn for the empty quadriceps series of a source whose
\* biceps series has samples, next to a source with both channels
C19_Witness ==
    /\ run_pc = "report"
    /\ pc = "done"
    /\ yData = <<>>
    /\ sampledY = <<>>
    /\ Loads(1) /\ Loads(2)
    /\ time_series_data["419"].quad_data = <<>>
    /\ time_series_data["419"].bicep_data # <<>>
    /\ time_series_data["445"].quad_data # <<>>
    /\ FileOf(1).bicep = FileOf(2).bicep

\* the rows of the numeric cells of a column
NumericRows(col) == {r \in DOMAIN col : col[r].num}

\* x holds the cells of the rows picked by a strictly increasing pos
PicksInOrder(x, col, pos) ==
    /\ \A j \in DOMAIN x : x[j] = col[pos[j]].v
    /\ \A j \in 1..(Len(x) - 1) : pos[j] < pos[j + 1]
    /\ {pos[j] : j \in DOMAIN x} = NumericRows(col)

\* the row of the j-th numeric cell of col
NumericRow(col, j) ==
    CHOOSE r \in NumericRows(col) :
        Cardinality({q \in NumericRows(col) : q <= r}) = j

\* x is the sequence of the numeric cells of col, each once, in row order
ExtractedFrom(x, col) ==
    /\ Len(x) = Cardinality(NumericRows(col))
    /\ PicksInOrder(x, col, [j \in DOMAIN x |-> NumericRow(col, j)])

\* C20: the series of a channel is the subsequence of the cells of its
\* column that are numbers, in row order: nothing replaced, dropped twice,
\* reordered or repeated, and as long as there are numeric cells.
C20_SeriesIsNumericCells ==
    \A k \in DOMAIN file_configs :
        LET name == file_configs[k].name
        IN  (run_pc = "returned" /\ name \in DOMAIN time_series_data) =>
               /\ ExtractedFrom(time_series_data[name].quad_data,
                                FileOf(k).quad)
               /\ ExtractedFrom(time_series_data[name].bicep_data,
                                FileOf(k).bicep)
               /\ detailed_stats[name].quad.Count
                     = Len(time_series_data[name].quad_data)
               /\ detailed_stats[name].bicep.Count
                     = Len(time_series_data[name].bicep_data)

\* the series <<3, 4>> extracted from the cells 3, not a number, 4
C20_Witness ==
    /\ run_pc = "returned"
    /\ "419" \in DOMAIN time_series_data
    /\ FileOf(1).quad = <<Num(3), NaNCell, Num(4)>>
    /\ time_series_data["419"].quad_data = <<3, 4>>
    /\ time_series_data["419"].bicep_data = <<0, -3>>

----------------------------------------------------------------------------
(* Repeated calls of calculate_statistics on one column *)

\* the number of recorded calls on a column
MaxCalls == 3
\* the recorded long columns have Count 20 .. MaxCallCount
MaxCallCount == 22

\* the columns called repeatedly
CallColumns ==
    ShortColumns
    \cup {LongColumn(n, a, b, pat, gaps) :
             n \in 20..MaxCallCount, a \in 0..MaxTail, b \in 0..MaxTail,
             pat \in Patterns, gaps \in BOOLEAN}

\* mutant: the coercion drops the cells that are not numbers in place
after_call_inplace(col) == [r \in 1..Len(to_numeric_dropna(col)) |->
                               Num(to_numeric_dropna(col)[r])]

\* the caller's column after the call: pd.to_numeric and dropna return new
\* objects and data is never assigned to
after_call(col) == col

InitCalls ==
    /\ series \in CallColumns
    /\ StatsIdle
    /\ ServerIdle
    /\ ChartsIdle
    /\ RunIdle

\* a call of calculate_statistics whose arguments and result are recorded
RecordedCall ==
    /\ Len(calls) < MaxCalls
    /\ \E flag \in BOOLEAN :
          LET r == calculate_statistics(series, flag)
          IN  /\ remove_outliers' = flag
              /\ stats' = r.bundle
              /\ numeric_series' = r.numeric_series
              /\ percentiles' = r.percentiles
              /\ filtered_series' = r.filtered
              /\ raised' = r.raised
              /\ calls' = Append(calls, [data |-> series, flag |-> flag,
                                         raised |-> r.raised,
                                         bundle |-> r.bundle])
              /\ series' = after_call(series)
    /\ UNCHANGED <<improved_stats, improved_rms, chartVars, runVars, serverVars>>

NextCalls == RecordedCall

SpecCalls == InitCalls /\ [][NextCalls]_vars

----------------------------------------------------------------------------
(* The body of the loop of analyze_emg_data as one task per source, the    *)
(* tasks taking their steps in any order                                   *)

SourceNames == {file_configs[k].name : k \in DOMAIN file_configs}

TypeOf(name) ==
    file_configs[CHOOSE k \in DOMAIN file_configs :
                    file_configs[k].name = name].type

\* the files of a source taken through the tasks
TaskFileStates(type) ==
    {MissingFile, UnparseableFile,
     TableFile(<<NaNCell, NaNCell, NaNCell>>, <<Num(0), Num(-3), NaNCell>>,
               HeaderLine(type), "ok")}
    \cup {FullTable(HeaderLine(type), rr) : rr \in Rereads}

InitTasks ==
    /\ series = <<>>
    /\ StatsIdle
    /\ ServerIdle
    /\ ChartsIdle
    /\ program = "web"
    /\ \E f1 \in TaskFileStates("Other"), f2 \in TaskFileStates("Other"),
          f3 \in TaskFileStates("Noraxon") :
          disk = ("419" :> f1) @@ ("445" :> f2) @@ ("Noraxon" :> f3)
    /\ run_pc = "tasks"
    /\ loopPos = 0
    /\ analysis_results = <<>>
    /\ detailed_stats = <<>>
    /\ raw_data_preview = <<>>
    /\ time_series_data = <<>>
    /\ trail = <<>>
    /\ stage = [name \in SourceNames |-> "start"]
    /\ display = <<>>

\* the exists test, the first read and the statistics of one source, up to
\* detailed_stats[name]
TaskStatistics(name) ==
    /\ run_pc = "tasks"
    /\ stage[name] = "start"
    /\ LET f  == disk[name]
           o  == web_outcome(f, TypeOf(name))
           qs == calculate_statistics(f.quad, TRUE).bundle[1]
           bs == calculate_statistics(f.bicep, TRUE).bundle[1]
       IN  IF o \in {"missing", "error"}
           THEN /\ stage' = [stage EXCEPT ![name] =
                                IF o = "missing" THEN "skipped" ELSE "failed"]
                /\ UNCHANGED <<analysis_results, detailed_stats>>
           ELSE /\ analysis_results' =
                      Put(analysis_results, name, web_result(qs, bs))
                /\ detailed_stats' =
                      Put(detailed_stats, name, [quad |-> qs, bicep |-> bs])
                /\ stage' = [stage EXCEPT ![name] = "stored"]
    /\ UNCHANGED <<statsVars, serverVars, chartVars, program, disk, run_pc, loopPos,
                   raw_data_preview, time_series_data, trail, display>>

\* the second read of one source, up to raw_data_preview[name]
TaskPreview(name) ==
    /\ run_pc = "tasks"
    /\ stage[name] = "stored"
    /\ IF disk[name].reread = "preview_fails"
       THEN /\ stage' = [stage EXCEPT ![name] = "failed"]
            /\ UNCHANGED raw_data_preview
       ELSE /\ raw_data_preview' =
                  Put(raw_data_preview, name,
                      preview_entry(disk[name], TypeOf(name)))
            /\ stage' = [stage EXCEPT ![name] = "previewed"]
    /\ UNCHANGED <<statsVars, serverVars, chartVars, program, disk, run_pc, loopPos,
                   analysis_results, detailed_stats, time_series_data, trail,
                   display>>

\* the third read of one source, up to time_series_data[name]
TaskSeries(name) ==
    /\ run_pc = "tasks"
    /\ stage[name] = "previewed"
    /\ IF disk[name].reread = "series_fails"
       THEN /\ stage' = [stage EXCEPT ![name] = "failed"]
            /\ UNCHANGED time_series_data
       ELSE /\ time_series_data' =
                  Put(time_series_data, name,
                      series_entry(disk[name], TypeOf(name)))
            /\ stage' = [stage EXCEPT ![name] = "done"]
    /\ UNCHANGED <<statsVars, serverVars, chartVars, program, disk, run_pc, loopPos,
                   analysis_results, detailed_stats, raw_data_preview, trail,
                   display>>

NextTasks ==
    \E name \in SourceNames :
        \/ TaskStatistics(name)
        \/ TaskPreview(name)
        \/ TaskSeries(name)

SpecTasks == InitTasks /\ [][NextTasks]_vars

\* every task has ended
TasksEnded ==
    \A name \in SourceNames : stage[name] \in {"skipped", "failed", "done"}

\* the sources that the loop of analyze_emg_data, run on the same files in
\* the configured order, leaves in a map: those that get past the given
\* outcomes
LoopKeys(outcomes) ==
    {name \in SourceNames : web_outcome(disk[name], TypeOf(name)) \in outcomes}

\* the entry of a source is that of its own file alone
OwnEntries ==
    /\ \A name \in DOMAIN analysis_results :
          /\ RmsIs(analysis_results[name].quad_RMS_orig,
                   NumericOf(disk[name].quad))
          /\ RmsIs(analysis_results[name].bicep_RMS_orig,
                   NumericOf(disk[name].bicep))
          /\ detailed_stats[name].quad
                = calculate_statistics(disk[name].quad, TRUE).bundle[1]
          /\ detailed_stats[name].bicep
                = calculate_statistics(disk[name].bicep, TRUE).bundle[1]
    /\ \A name \in DOMAIN raw_data_preview :
          raw_data_preview[name].quad = disk[name].quad
    /\ \A name \in DOMAIN time_series_data :
          /\ time_series_data[name].quad_data = NumericOf(disk[name].quad)
          /\ time_series_data[name].bicep_data = NumericOf(disk[name].bicep)

\* C22: each task reads only the file of its source and writes only the
\* entries of its source: whatever the order in which the tasks take their
\* steps, the maps at the end hold the sources that the loop in configured
\* order leaves in them, each with the entry of its own file, whatever
\* became of the other sources; and a step never changes another entry.
C22_OrderIndependent ==
    /\ [](OwnEntries)
    /\ [](TasksEnded =>
            /\ DOMAIN analysis_results
                  = LoopKeys({"error_preview", "error_series", "ok"})
            /\ DOMAIN detailed_stats = DOMAIN analysis_results
            /\ DOMAIN raw_data_preview = LoopKeys({"error_series", "ok"})
            /\ DOMAIN time_series_data = LoopKeys({"ok"}))
    /\ [][/\ Kept(analysis_results, analysis_results')
          /\ Kept(detailed_stats, detailed_stats')
          /\ Kept(raw_data_preview, raw_data_preview')
          /\ Kept(time_series_data, time_series_data')]_vars

\* the last source has finished before the first one started, next to a
\* source that failed
C22_Witness ==
    /\ stage["Noraxon"] = "done"
    /\ stage["445"] = "failed"
    /\ stage["419"] = "start"
    /\ web_outcome(disk["419"], "Other") = "ok"

\* the labels of the Noraxon file stand right after three preamble rows
HeaderAfterThree(f) == f.kind = "table" /\ f.columns /\ f.header_line = 3

\* C23: both entry points skip 3 preamble rows of the Noraxon file, so
\* either of them includes the source exactly when the labels stand on the
\* row after the first three, with the samples of its channel columns.
C23_SameRowsSkipped ==
    Finished =>
        /\ "Noraxon" \in DOMAIN analysis_results
              <=> HeaderAfterThree(disk["Noraxon"])
        /\ "Noraxon" \in DOMAIN analysis_results =>
              /\ detailed_stats["Noraxon"].quad.Count
                    = Len(NumericOf(disk["Noraxon"].quad))
              /\ detailed_stats["Noraxon"].bicep.Count
                    = Len(NumericOf(disk["Noraxon"].bicep))

\* the ratio cell is the number |q| / |b|
RatioIs(c, q, b) ==
    /\ c.kind = "num"
    /\ ~c.neg
    /\ LET sq == Square(q)
           sb == Square(b)
       IN  Square(c.v) = Rat(sq.n * sb.d, sq.d * sb.n)

\* C24: in the web report the headline RMS of each muscle is the filtered
\* RMS and the raw RMS is kept under the 'original' key; the Q/B ratio is
\* the filtered quadriceps RMS over the filtered biceps RMS, and 'N/A'
\* exactly when the filtered biceps RMS is 0.
C24_HeadlineIsFiltered ==
    program = "web" =>
        /\ \A name \in DOMAIN analysis_results :
              LET a == analysis_results[name]
                  d == detailed_stats[name]
              IN  /\ a.quad_RMS = d.quad.RMS_filtered
                  /\ a.bicep_RMS = d.bicep.RMS_filtered
                  /\ a.quad_RMS_orig = d.quad.RMS
                  /\ a.bicep_RMS_orig = d.bicep.RMS
                  /\ RmsIs(a.quad_RMS_orig, NumericOf(disk[name].quad))
                  /\ RmsIs(a.bicep_RMS_orig, NumericOf(disk[name].bicep))
        /\ \A name \in DOMAIN display :
              LET d == detailed_stats[name]
              IN  IF d.bicep.RMS_filtered = Zero
                  THEN display[name].ratio.kind = "N/A"
                  ELSE RatioIs(display[name].ratio, d.quad.RMS_filtered,
                               d.bicep.RMS_filtered)

\* a report with a ratio of filtered values that differ from the raw ones,
\* and a source whose biceps RMS is 0 only after trimming
C24_Witness ==
    /\ run_pc = "report"
    /\ program = "web"
    /\ "419" \in DOMAIN display /\ "445" \in DOMAIN display
    /\ display["419"].ratio.kind = "num"
    /\ analysis_results["419"].quad_RMS # analysis_results["419"].quad_RMS_orig
    /\ analysis_results["419"].bicep_RMS
          # analysis_results["419"].bicep_RMS_orig
    /\ display["445"].ratio.kind = "N/A"
    /\ analysis_results["445"].bicep_RMS_orig # Zero

----------------------------------------------------------------------------
(* Further properties of calculate_statistics (specification Spec) *)

\* C26: for every series with more than 20 samples the call returns and the
\* retained subset is not empty: Count_filtered >= 1, so every filtered
\* statistic is that of at least one sample.
C26_RetainedNeverEmpty ==
    (Called /\ Len(Samples) > 20) =>
        /\ Returned
        /\ ~raised
        /\ Bundle.Count_filtered >= 1
        /\ Retained # <<>>
        /\ remove_outliers => filtered_series # <<>>

\* a trimming call that drops two samples from each tail
C26_Witness ==
    /\ Returned /\ remove_outliers /\ Len(Samples) > 20
    /\ BelowBand = 2 /\ AboveBand = 2
    /\ Bundle.Count_filtered = Len(Samples) - 4

\* the samples are pairwise distinct
Distinct(x) == Cardinality({x[i] : i \in DOMAIN x}) = Len(x)

\* all samples are equal
AllEqual(x) == Cardinality({x[i] : i \in DOMAIN x}) = 1

\* ceil((N - 1) / 40)
TailSize(N) == (N + 38) \div 40

\* C27: with more than 20 pairwise distinct samples trimming removes exactly
\* ceil((N - 1) / 40) samples from each tail, so Outliers_removed =
\* 2 * ceil((N - 1) / 40) (2 for N = 21..41); with repeated values it
\* removes at most that many, and none when all samples are equal.
C27_ExactTailCount ==
    (Called /\ remove_outliers /\ Len(Samples) > 20) =>
        /\ Returned
        /\ Bundle.Outliers_removed <= 2 * TailSize(Len(Samples))
        /\ Distinct(Samples) =>
              /\ BelowBand = TailSize(Len(Samples))
              /\ AboveBand = TailSize(Len(Samples))
              /\ Bundle.Outliers_removed = 2 * TailSize(Len(Samples))
              /\ Len(Samples) <= 41 => Bundle.Outliers_removed = 2
        /\ AllEqual(Samples) => Bundle.Outliers_removed = 0

\* 41 distinct samples, where the percentile position is exactly 1
C27_Witness ==
    /\ Returned /\ remove_outliers
    /\ Len(Samples) = 41 /\ Distinct(Samples)
    /\ Bundle.Outliers_removed = 2

\* |x| <= y for a rational x and a real y >= 0
AbsLeq(x, y) == y.n >= 0 /\ RatLeq(Square(x), Square(y))

----------------------------------------------------------------------------
(* The statistics functions of both programs on the same column *)

\* calculate_statistics(series) of emg_analysis_improved
CalculateStatisticsImproved ==
    /\ improved_stats' = <<calculate_statistics_improved(series)>>
    /\ UNCHANGED <<series, remove_outliers, stats, numeric_series, percentiles,
                   filtered_series, raised, calls, improved_rms,
                   chartVars, runVars, serverVars>>

\* calculate_rms(series) of emg_analysis_improved
CalculateRms ==
    /\ improved_rms' = <<calculate_rms(series)>>
    /\ UNCHANGED <<series, remove_outliers, stats, numeric_series, percentiles,
                   filtered_series, raised, calls, improved_stats,
                   chartVars, runVars, serverVars>>

NextCompare ==
    \/ CalculateStatistics
    \/ CalculateStatisticsImproved
    \/ CalculateRms

SpecCompare == Init /\ [][NextCompare]_vars

RawFields == {"RMS", "Mean", "Std", "Max", "Min", "Count"}

FilteredFields == {"RMS_filtered", "Mean_filtered", "Std_filtered",
                   "Max_filtered", "Min_filtered", "Count_filtered",
                   "Outliers_removed"}

\* C29: on every column the six statistics of the improved analysis equal
\* the six raw fields of the web report's bundle (whatever the trimming
\* flag), calculate_rms returns the RMS field, and the web report's bundle
\* has the filtered fields in addition and nothing else.
C29_SameRawStatistics ==
    /\ Called => Returned
    /\ improved_stats # <<>> => DOMAIN improved_stats[1] = RawFields
    /\ Returned => DOMAIN Bundle = RawFields \cup FilteredFields
    /\ (Returned /\ improved_stats # <<>>) =>
          \A field \in RawFields : improved_stats[1][field] = Bundle[field]
    /\ (Returned /\ improved_rms # <<>>) => improved_rms[1] = Bundle.RMS
    /\ (improved_stats # <<>> /\ improved_rms # <<>>) =>
          improved_rms[1] = improved_stats[1].RMS

\* the three functions have run on a column with cells that are not
\* numbers, which the web report trims
C29_Witness ==
    /\ Returned /\ improved_stats # <<>> /\ improved_rms # <<>>
    /\ Len(Samples) < Len(series)
    /\ Bundle.Outliers_removed > 0
    /\ improved_rms[1].root

----------------------------------------------------------------------------
(* start_web_server *)

\* the program is started in any directory; the directory /Volumes/dev/EMG
\* may not exist on the machine; a report of an earlier run may lie in any
\* existing directory
InitServer ==
    /\ series = <<>>
    /\ StatsIdle
    /\ ChartsIdle
    /\ RunIdle
    /\ cwd \in Dirs
    /\ volume \in BOOLEAN
    /\ (cwd = serve_directory) => volume
    /\ files \in [Dirs -> {"absent", "old"}]
    /\ ~volume => files[serve_directory] = "absent"
    /\ port_free \in BOOLEAN
    /\ srv_pc = "idle"
    /\ response = <<>>

\* report_file = generate_html_report(): open('emg_report_live.html', 'w')
\* writes the report into the working directory
GenerateReport ==
    /\ srv_pc = "idle"
    /\ files' = [files EXCEPT ![cwd] = "new"]
    /\ srv_pc' = "generated"
    /\ UNCHANGED <<statsVars, chartVars, runVars, cwd, volume, port_free,
                   response>>

\* os.chdir('/Volumes/dev/EMG'): raises when the directory does not exist
ChangeDirectory ==
    /\ srv_pc = "generated"
    /\ IF volume
       THEN cwd' = serve_directory /\ srv_pc' = "chdir"
       ELSE cwd' = cwd /\ srv_pc' = "failed"
    /\ UNCHANGED <<statsVars, chartVars, runVars, volume, files, port_free,
                   response>>

\* HTTPServer(("", PORT), MyHTTPRequestHandler): raises when the port is
\* taken; otherwise the URL is announced and serve_forever() runs
StartServer ==
    /\ srv_pc = "chdir"
    /\ srv_pc' = IF port_free THEN "serving" ELSE "failed"
    /\ UNCHANGED <<statsVars, chartVars, runVars, cwd, volume, files,
                   port_free, response>>

\* what SimpleHTTPRequestHandler answers to GET /emg_report_live.html: the
\* file of that name in the working directory of the process, or 404
served_file == IF files[cwd] = "absent" THEN "404" ELSE files[cwd]

\* the browser thread (or the user) opens the announced URL
Get ==
    /\ srv_pc = "serving"
    /\ response' = <<served_file>>
    /\ UNCHANGED <<statsVars, chartVars, runVars, cwd, volume, files,
                   port_free, srv_pc>>

\* KeyboardInterrupt: httpd.shutdown()
StopServer ==
    /\ srv_pc = "serving"
    /\ srv_pc' = "stopped"
    /\ UNCHANGED <<statsVars, chartVars, runVars, cwd, volume, files,
                   port_free, response>>

NextServer ==
    \/ GenerateReport
    \/ ChangeDirectory
    \/ StartServer
    \/ Get
    \/ StopServer

SpecServer == InitServer /\ [][NextServer]_vars

\* C30: the report is generated before the server starts and lies in the
\* directory the server serves, so the announced URL answers with the report
\* just generated, whatever the directory the program was started from.
C30_ReportIsServed ==
    /\ srv_pc = "serving" => files[cwd] = "new"
    /\ response # <<>> => response[1] = "new"

====
